---- MODULE Spec2Model ----
(***************************************************************************)
(* kits19cnn.io.dataset_2d.SliceDataset: the slice-sampling dataset.       *)
(* A dataset object (ds) built by __init__, the case directories on disk   *)
(* (disk, npyShape), and the outcome of the latest __getitem__ (ret) and   *)
(* __len__ (lenRet) calls.  Random draws are nondeterministic choices.     *)
(***************************************************************************)
EXTENDS Integers, Sequences, FiniteSets, TLC

VARIABLES ds, disk, npyShape, ret, lenRet

vars == <<ds, disk, npyShape, ret, lenRet>>

(***************************************************************************)
(* Bounds of the model.                                                    *)
(***************************************************************************)
MaxCases == 2
MaxFiles == 2
MaxListLen == 1
MaxDim == 2

(***************************************************************************)
(* Python values: outcomes of calls, lists, dicts, ints.                   *)
(***************************************************************************)
NoIdx == 0 - 1

\* The outcome of a call: a returned value or a raised exception; cls is the
\* class label positive sampling drew, if it drew one.
OK(v) == [err |-> "none", val |-> v, cls |-> NoIdx]

Raise(e) == [err |-> e, val |-> NoIdx, cls |-> NoIdx]

WithClass(outcome, sampled_class) == [outcome EXCEPT !.cls = sampled_class]

PyList(items) == [kind |-> "list", items |-> items]

PyDict(map) == [kind |-> "dict", map |-> map]

PyInt(n) == [kind |-> "int", n |-> n]

\* Path(case_fpath).name: the last component of the path.
PathName(case_fpath) == case_fpath[Len(case_fpath)]

\* pos_slice_dict is an insertion-ordered dict: a sequence of <<key, value>>
\* pairs with distinct keys.
DictKeys(d) == [i \in DOMAIN d |-> d[i][1]]

HasKey(d, k) == \E i \in DOMAIN d : d[i][1] = k

DictGet(d, k) == d[CHOOSE i \in DOMAIN d : d[i][1] = k][2]

\* value[sampled_class]: a dict is looked up by key, a list is indexed by the
\* (integer) label, zero-based.
Subscript(value, label) ==
    IF value.kind = "dict"
    THEN IF label \in DOMAIN value.map
         THEN OK(PyList(value.map[label]))
         ELSE Raise("KeyError")
    ELSE IF label + 1 \in DOMAIN value.items
         THEN OK(PyInt(value.items[label + 1]))
         ELSE Raise("IndexError")

\* Mutant of np_random_choice: returns the drawn position, not the element.
np_random_choice_position(a) ==
    CASE a.kind = "list" ->
           IF a.items = <<>>
           THEN {Raise("ValueError")}
           ELSE {OK(i - 1) : i \in DOMAIN a.items}
      [] a.kind = "int" ->
           IF a.n <= 0
           THEN {Raise("ValueError")}
           ELSE {OK(k) : k \in 0..(a.n - 1)}
      [] OTHER -> {Raise("ValueError")}

\* np.random.choice(a): a uniform element of a 1-d sequence, or of arange(a)
\* for an integer a; a ValueError for an empty population or any other value.
\* The result is the set of possible outcomes.
np_random_choice(a) ==
    CASE a.kind = "list" ->
           IF a.items = <<>>
           THEN {Raise("ValueError")}
           ELSE {OK(a.items[i]) : i \in DOMAIN a.items}
      [] a.kind = "int" ->
           IF a.n <= 0
           THEN {Raise("ValueError")}
           ELSE {OK(k) : k \in 0..(a.n - 1)}
      [] OTHER -> {Raise("ValueError")}

\* np.random.randint(low, high): an integer of [low, high), a ValueError when
\* the range is empty.
np_random_randint(low, high) ==
    IF low >= high
    THEN {Raise("ValueError")}
    ELSE {OK(k) : k \in low..(high - 1)}

(***************************************************************************)
(* Construction.                                                           *)
(***************************************************************************)
\* The elements of a set of integers in ascending order.
RECURSIVE SortedSeq(_)
SortedSeq(S) ==
    IF S = {}
    THEN <<>>
    ELSE LET m == CHOOSE x \in S : \A y \in S : x <= y
         IN <<m>> \o SortedSeq(S \ {m})

\* The attribute fg_classes is not set for a flat structure.
NoClasses == <<"unset">>

\* Mutant of check_fg_idx_per_class: classifies from the last key: value pair.
check_fg_idx_per_class_last(pos_slice_dict) ==
    LET dummy_value == pos_slice_dict[Len(pos_slice_dict)][2]
        per_class == dummy_value.kind = "dict"
    IN [fg_idx_per_class |-> per_class,
        fg_classes |-> IF per_class
                      THEN SortedSeq(DOMAIN dummy_value.map)
                      ELSE NoClasses]

\* check_fg_idx_per_class: classifies from the first key: value pair only.
check_fg_idx_per_class(pos_slice_dict) ==
    LET dummy_key == DictKeys(pos_slice_dict)[1]
        dummy_value == DictGet(pos_slice_dict, dummy_key)
        per_class == dummy_value.kind = "dict"
    IN [fg_idx_per_class |-> per_class,
        fg_classes |-> IF per_class
                      THEN SortedSeq(DOMAIN dummy_value.map)
                      ELSE NoClasses]

\* __init__: stores its arguments and classifies the structure once.
SliceDataset(im_ids, pos_slice_dict, transforms, preprocessing, p_pos_per_sample) ==
    LET c == check_fg_idx_per_class(pos_slice_dict)
    IN [im_ids |-> im_ids,
        pos_slice_dict |-> pos_slice_dict,
        transforms |-> transforms,
        preprocessing |-> preprocessing,
        p_pos_per_sample |-> p_pos_per_sample,
        fg_idx_per_class |-> c.fg_idx_per_class,
        fg_classes |-> c.fg_classes]

(***************************************************************************)
(* Sampling of the slice index.                                            *)
(***************************************************************************)
\* Mutant of get_rand_pos_slice_idx: draws the label among the keys of the
\* record of the case instead of fg_classes.
get_rand_pos_slice_idx_own_labels(self, case_fpath) ==
    LET case_raw == PathName(case_fpath)
        psd == self.pos_slice_dict
    IN IF ~HasKey(psd, case_raw)
       THEN {Raise("KeyError")}
       ELSE IF self.fg_idx_per_class /\ DictGet(psd, case_raw).kind = "dict"
       THEN UNION {
              IF sampled_class.err # "none" THEN {sampled_class}
              ELSE {WithClass(random_pos_coord, sampled_class.val) :
                      random_pos_coord \in np_random_choice(
                          PyList(DictGet(psd, case_raw).map[sampled_class.val]))}
              : sampled_class \in np_random_choice(
                    PyList(SortedSeq(DOMAIN DictGet(psd, case_raw).map))) }
       ELSE np_random_choice(DictGet(psd, case_raw))

\* get_rand_pos_slice_idx: the possible outcomes of positive sampling.
get_rand_pos_slice_idx(self, case_fpath) ==
    LET case_raw == PathName(case_fpath)
        psd == self.pos_slice_dict
    IN IF self.fg_idx_per_class
       THEN UNION {
              IF sampled_class.err # "none" THEN {sampled_class}
              ELSE IF ~HasKey(psd, case_raw)
                   THEN {WithClass(Raise("KeyError"), sampled_class.val)}
              ELSE LET slice_indices ==
                         Subscript(DictGet(psd, case_raw), sampled_class.val)
                   IN IF slice_indices.err # "none"
                      THEN {WithClass(Raise(slice_indices.err), sampled_class.val)}
                      ELSE {WithClass(random_pos_coord, sampled_class.val) :
                              random_pos_coord \in np_random_choice(slice_indices.val)}
              : sampled_class \in np_random_choice(PyList(self.fg_classes)) }
       ELSE IF ~HasKey(psd, case_raw)
            THEN {Raise("KeyError")}
            ELSE np_random_choice(DictGet(psd, case_raw))

\* os.listdir(case_fpath) filtered by file.startswith("imaging_").
SliceFiles(files, case_fpath) ==
    {f \in files[case_fpath] : f[1] = "imaging_"}

\* Mutant of get_rand_slice_idx: the upper end of the range is included.
get_rand_slice_idx_inclusive(files, case_fpath) ==
    np_random_randint(0, Cardinality(SliceFiles(files, case_fpath)) + 1)

\* get_rand_slice_idx: the possible outcomes of uniform sampling.
get_rand_slice_idx(files, case_fpath) ==
    np_random_randint(0, Cardinality(SliceFiles(files, case_fpath)))

\* Mutant of TakesPositive: <= for <.
TakesPositiveInclusive(temp_p, p_pos_per_sample) == temp_p <= p_pos_per_sample

\* temp_p < self.p_pos_per_sample (both in hundredths).
TakesPositive(temp_p, p_pos_per_sample) == temp_p < p_pos_per_sample

Digit == <<"0", "1", "2", "3", "4", "5", "6", "7", "8", "9">>

\* str(slice_idx) for a non-negative integer: its decimal digits.
RECURSIVE str(_)
str(n) ==
    IF n < 10
    THEN <<Digit[n + 1]>>
    ELSE Append(str(n \div 10), Digit[(n % 10) + 1])

\* while len(slice_idx_str) < 3: slice_idx_str = "0" + slice_idx_str
RECURSIVE ZeroPad(_)
ZeroPad(slice_idx_str) ==
    IF Len(slice_idx_str) < 3
    THEN ZeroPad(<<"0">> \o slice_idx_str)
    ELSE slice_idx_str

\* Mutant of FormatSliceIdx: the padding is left out.
FormatSliceIdxUnpadded(slice_idx) == str(slice_idx)

\* get_slice_idx_str after the index is drawn: lines 84-87.
FormatSliceIdx(slice_idx) == ZeroPad(str(slice_idx))

(***************************************************************************)
(* Loading and the transform pipeline.                                     *)
(***************************************************************************)
NoArray == [lib |-> "none", shape |-> <<>>, dtype |-> "none", file |-> <<>>]

NoPath == <<>>

\* join(case_fpath, f"{prefix}{slice_idx_str}.npy")
FilePath(case_fpath, prefix, slice_idx_str) == <<case_fpath, prefix, slice_idx_str>>

Exists(files, path) == <<path[2], path[3]>> \in files[path[1]]

\* Mutant of np_load: a missing file reads as an array instead of raising.
np_load_missing_ok(files, path, shape, dtype) ==
    OK([lib |-> "numpy", shape |-> shape, dtype |-> dtype, file |-> path])

\* np.load(path): the stored array, or FileNotFoundError.
np_load(files, path, shape, dtype) ==
    IF Exists(files, path)
    THEN OK([lib |-> "numpy", shape |-> shape, dtype |-> dtype, file |-> path])
    ELSE Raise("FileNotFoundError")

\* a[None]: a leading dimension of size 1.
AddDim(a) == [a EXCEPT !.shape = <<1>> \o a.shape]

\* load_slices after get_slice_idx_str returned: lines 68-70.
load_slices(files, shape, case_fpath, slice_idx_str) ==
    LET x_path == FilePath(case_fpath, "imaging_", slice_idx_str)
        y_path == FilePath(case_fpath, "segmentation_", slice_idx_str)
        x == np_load(files, x_path, shape, "float64")
        y == np_load(files, y_path, shape, "int64")
    IN IF x.err # "none" THEN [err |-> x.err, x |-> NoArray, y |-> NoArray]
       ELSE IF y.err # "none" THEN [err |-> y.err, x |-> NoArray, y |-> NoArray]
       ELSE [err |-> "none", x |-> AddDim(x.val), y |-> AddDim(y.val)]

\* x[None] if len(x.shape) == 3 else x
AddBatchDim(a) ==
    IF Len(a.shape) = 3 THEN AddDim(a) ELSE a

\* The callables of the model: an identity returning {"data": data, "seg": seg}
\* unchanged, and a shape-preserving conversion to torch tensors.
Call(callable, x, y) ==
    IF callable = "to_tensor"
    THEN [data |-> [x EXCEPT !.lib = "torch"], seg |-> [y EXCEPT !.lib = "torch"]]
    ELSE [data |-> x, seg |-> y]

\* if self.transforms: / if self.preprocessing:
Truthy(callable) == callable # "none"

\* torch.squeeze(t, dim=0) on a shape: removes dimension 0 when its size is 1.
SqueezeDim0(shape) ==
    IF Len(shape) > 0 /\ shape[1] = 1 THEN Tail(shape) ELSE shape

\* __getitem__ after load_slices returned (x, y): lines 44-57.
Pipeline(self, x, y) ==
    LET x1 == IF Truthy(self.transforms) THEN AddBatchDim(x) ELSE x
        y1 == IF Truthy(self.transforms) THEN AddBatchDim(y) ELSE y
        data_dict == Call(self.transforms, x1, y1)
        x2 == IF Truthy(self.transforms) THEN data_dict.data ELSE x
        y2 == IF Truthy(self.transforms) THEN data_dict.seg ELSE y
        preprocessed == Call(self.preprocessing, x2, y2)
        x3 == IF Truthy(self.preprocessing) THEN preprocessed.data ELSE x2
        y3 == IF Truthy(self.preprocessing) THEN preprocessed.seg ELSE y2
        tc == IF Truthy(self.transforms) THEN 1 ELSE 0
        pc == IF Truthy(self.preprocessing) THEN 1 ELSE 0
    IN IF x3.lib # "torch" \/ y3.lib # "torch"
       THEN [err |-> "TypeError", x |-> NoArray, y |-> NoArray,
             transforms_calls |-> tc, preprocessing_calls |-> pc]
       ELSE [err |-> "none",
             x |-> [x3 EXCEPT !.shape = SqueezeDim0(x3.shape), !.dtype = "float32"],
             y |-> [y3 EXCEPT !.shape = SqueezeDim0(y3.shape)],
             transforms_calls |-> tc, preprocessing_calls |-> pc]

NoRet ==
    [idx |-> NoIdx, case_id |-> NoPath, branch |-> "none", slice_idx |-> NoIdx,
     sampled_class |-> NoIdx, slice_idx_str |-> <<>>,
     x_path |-> NoPath, y_path |-> NoPath,
     err |-> "nocall", x |-> NoArray, y |-> NoArray,
     transforms_calls |-> 0, preprocessing_calls |-> 0]

\* load_slices and the rest of __getitem__, for one outcome s of the sampling
\* of the slice index on the given branch.
GetItemOutcome(self, files, shape, idx, branch, s) ==
    LET case_id == self.im_ids[idx + 1]
        base == [NoRet EXCEPT !.idx = idx, !.case_id = case_id, !.branch = branch,
                              !.sampled_class = s.cls]
    IN IF s.err # "none"
       THEN [base EXCEPT !.err = s.err]
       ELSE LET slice_idx_str == FormatSliceIdx(s.val)
                named == [base EXCEPT
                            !.slice_idx = s.val,
                            !.slice_idx_str = slice_idx_str,
                            !.x_path = FilePath(case_id, "imaging_", slice_idx_str),
                            !.y_path = FilePath(case_id, "segmentation_", slice_idx_str)]
                loaded == load_slices(files, shape, case_id, slice_idx_str)
            IN IF loaded.err # "none"
               THEN [named EXCEPT !.err = loaded.err]
               ELSE LET r == Pipeline(self, loaded.x, loaded.y)
                    IN [named EXCEPT !.err = r.err, !.x = r.x, !.y = r.y,
                                     !.transforms_calls = r.transforms_calls,
                                     !.preprocessing_calls = r.preprocessing_calls]

\* Mutant of SelfAfterCall: the call switches positive sampling off.
SelfAfterCallResetsP(self) == [self EXCEPT !.p_pos_per_sample = 0]

\* The attributes of the object after a __getitem__ or __len__ call: neither
\* method assigns to self.
SelfAfterCall(self) == self

(***************************************************************************)
(* Operations.                                                             *)
(***************************************************************************)
\* The values drawn by np.random.uniform(0, 1), in hundredths.
UDraws == {0, 33, 99}

\* __getitem__(idx) for a valid idx.
GetItem ==
    \E idx \in 0..(Len(ds.im_ids) - 1), temp_p \in UDraws :
        LET case_id == ds.im_ids[idx + 1]
            positive == TakesPositive(temp_p, ds.p_pos_per_sample)
            sampled == IF positive
                       THEN get_rand_pos_slice_idx(ds, case_id)
                       ELSE get_rand_slice_idx(disk, case_id)
        IN \E s \in sampled :
              /\ ret' = GetItemOutcome(ds, disk, npyShape, idx,
                                       IF positive THEN "pos" ELSE "rand", s)
              /\ ds' = SelfAfterCall(ds)
              /\ UNCHANGED <<disk, npyShape, lenRet>>

\* __len__()
LenCall ==
    /\ lenRet' = Len(ds.im_ids)
    /\ ds' = SelfAfterCall(ds)
    /\ UNCHANGED <<disk, npyShape, ret>>

Next == GetItem \/ LenCall

(***************************************************************************)
(* The datasets and disks of the model.                                    *)
(***************************************************************************)
CasePaths == {<<"data", "case_a">>, <<"data", "case_b">>}

CaseNames == {PathName(c) : c \in CasePaths}

\* Recorded foreground slice indices and class labels (kidney 1, tumor 2).
PosIdx == {7, 12}

Labels == {1, 2}

\* np.random.uniform(0, 1) < p for p = 0.0, 0.33 (the default) and 1.0.
PValues == {0, 33, 100}

Callables == {"none", "identity", "to_tensor"}

IndexLists == {SortedSeq(S) : S \in {T \in SUBSET PosIdx : Cardinality(T) <= MaxListLen}}

ClassMaps == UNION {[S -> IndexLists] : S \in SUBSET Labels}

CaseRecords == {PyList(l) : l \in IndexLists} \cup {PyDict(m) : m \in ClassMaps}

\* Foreground-index structures of one or two entries, in insertion order.
PosSliceDicts ==
    {<<<<k, v>>>> : k \in CaseNames, v \in CaseRecords}
    \cup {<<<<k[1], v1>>, <<k[2], v2>>>> :
            k \in {kk \in CaseNames \X CaseNames : kk[1] # kk[2]},
            v1 \in CaseRecords, v2 \in CaseRecords}

ImIds == UNION {[1..n -> CasePaths] : n \in 1..MaxCases}

\* "{i:03d}": the decimal digits of i, zero-padded to a width of at least 3.
Fmt03d(i) ==
    IF i < 10 THEN <<"0", "0", Digit[i + 1]>>
    ELSE IF i < 100 THEN <<"0", Digit[(i \div 10) + 1], Digit[(i % 10) + 1]>>
    ELSE str(i)

\* The file names save_dir_as_2d writes for slice i: "{prefix}{i:03d}.npy".
SavedFile(prefix, i) == <<prefix, Fmt03d(i)>>

\* A case directory holding the images of `img` and the labels of `seg`.
Dir(img, seg) ==
    {SavedFile("imaging_", i) : i \in img} \cup {SavedFile("segmentation_", i) : i \in seg}

BaseDir == Dir({0, 1, 7, 12, 1000}, {0, 1, 7, 12, 1000})

DiskIdx == 0..(MaxFiles - 1) \cup {7}

\* Directories of at most MaxFiles images, contiguous or with gaps, with every
\* label present or the last one missing.
DirLayouts ==
    UNION {{Dir(img, img)} \cup {Dir(img, img \ {i}) : i \in {j \in img : \A k \in img : k <= j}} :
             img \in {T \in SUBSET DiskIdx : Cardinality(T) <= MaxFiles}}

Shapes == (1..MaxDim) \X (1..MaxDim)

FlatDict == <<<<"case_a", PyList(<<7, 123, 1000>>)>>, <<"case_b", PyList(<<0>>)>>>>

\* Every foreground-index structure, on full directories.
InitDict ==
    /\ \E c \in CasePaths, d \in PosSliceDicts, p \in PValues :
          ds = SliceDataset(<<c>>, d, "to_tensor", "none", p)
    /\ disk = [c \in CasePaths |-> BaseDir]
    /\ npyShape = <<2, 2>>

\* Every layout of one case directory, every list of case identifiers.
InitDisk ==
    /\ \E ids \in ImIds, p \in PValues, t \in {"to_tensor"}, q \in {"none", "to_tensor"} :
          ds = SliceDataset(ids, FlatDict, t, q, p)
    /\ \E c \in CasePaths, layout \in DirLayouts :
          disk = [d \in CasePaths |-> IF d = c THEN layout ELSE BaseDir]
    /\ npyShape = <<2, 2>>

\* Every pair of callables, every shape of the stored slices.
InitPipe ==
    /\ \E c \in CasePaths, t \in Callables, q \in Callables, p \in PValues :
          ds = SliceDataset(<<c>>, FlatDict, t, q, p)
    /\ disk = [c \in CasePaths |-> BaseDir]
    /\ npyShape \in Shapes

Init ==
    /\ InitDict \/ InitDisk \/ InitPipe
    /\ ret = NoRet
    /\ lenRet = NoIdx

Spec == Init /\ [][Next]_vars

(***************************************************************************)
(* Properties.                                                             *)
(***************************************************************************)
Range(seq) == {seq[i] : i \in DOMAIN seq}

Called == ret.err # "nocall"

Resolved == ret.slice_idx # NoIdx

\* The record of the case of the latest retrieval, when it has one.
HasRecord == HasKey(ds.pos_slice_dict, PathName(ret.case_id))

Record == DictGet(ds.pos_slice_dict, PathName(ret.case_id))

OnDisk(path) == <<path[2], path[3]>> \in disk[path[1]]

\* The number a string of decimal digits denotes.
RECURSIVE DecimalValue(_)
DecimalValue(digits) ==
    IF digits = <<>>
    THEN 0
    ELSE 10 * DecimalValue(SubSeq(digits, 1, Len(digits) - 1))
         + (CHOOSE d \in 0..9 : Digit[d + 1] = digits[Len(digits)])

\* C1: with p_pos_per_sample = 1.0 every retrieval samples positively, and the
\* slice index it resolves (hence the files it names) is one recorded for its
\* case: an element of the case's list in flat mode, an element of the case's
\* list for one of the known class labels in per-class mode.
C1_PositiveIndexIsRecorded ==
    (Called /\ ds.p_pos_per_sample = 100) =>
        /\ ret.branch = "pos"
        /\ Resolved =>
             /\ HasRecord
             /\ (~ds.fg_idx_per_class /\ Record.kind = "list") =>
                    ret.slice_idx \in Range(Record.items)
             /\ (ds.fg_idx_per_class /\ Record.kind = "dict") =>
                    \E label \in Range(ds.fg_classes) :
                        /\ label \in DOMAIN Record.map
                        /\ ret.slice_idx \in Range(Record.map[label])
             /\ ret.x_path = <<ret.case_id, "imaging_", ret.slice_idx_str>>
             /\ ret.y_path = <<ret.case_id, "segmentation_", ret.slice_idx_str>>
             /\ DecimalValue(ret.slice_idx_str) = ret.slice_idx
        /\ ret.err = "none" => (ret.x.file = ret.x_path /\ ret.y.file = ret.y_path)

\* A per-class retrieval with p = 1.0 that loaded the files of a recorded index.
C1_Witness ==
    /\ ds.p_pos_per_sample = 100
    /\ ds.fg_idx_per_class
    /\ ret.err = "none"
    /\ Record.kind = "dict"
    /\ ret.slice_idx = 12
    /\ ret.slice_idx \in Range(Record.map[ret.sampled_class])

\* The number of files of the case directory whose names start with "imaging_".
NumImages == Cardinality({f \in disk[ret.case_id] : f[1] = "imaging_"})

\* C2: with p_pos_per_sample = 0.0 the positive branch is never taken, and for
\* a directory of N >= 1 image files the index is one of 0..N-1, whatever the
\* foreground-index structure holds.
C2_RandomIndexInRange ==
    (Called /\ ds.p_pos_per_sample = 0) =>
        /\ ret.branch = "rand"
        /\ ret.sampled_class = NoIdx
        /\ NumImages >= 1 => (Resolved /\ ret.slice_idx \in 0..(NumImages - 1))

\* The largest index of the range is drawn for a case the structure has no
\* entry for.
C2_Witness ==
    /\ Called
    /\ ds.p_pos_per_sample = 0
    /\ ~HasRecord
    /\ NumImages >= 2
    /\ ret.slice_idx = NumImages - 1

\* C3 (as claimed): every successful retrieval returns an image and a label of
\* shape (1, H, W) for stored slices of shape (H, W): the final squeeze removes
\* the batch dimension only.
C3_ReturnsChannelHW ==
    ret.err = "none" =>
        /\ ret.x.shape = <<1>> \o npyShape
        /\ ret.y.shape = <<1>> \o npyShape

\* The dataset of the model with both callables unset.
Unset == [ds EXCEPT !.transforms = "none", !.preprocessing = "none"]

\* C4 (as claimed): a retrieval on a dataset whose transforms and preprocessing
\* are identity callables yields the arrays that the same retrieval (same case,
\* same files, same draws) yields on the dataset with both unset.
C4_IdentityCallablesNeutral ==
    (Called /\ ds.transforms = "identity" /\ ds.preprocessing = "identity"
       /\ Resolved /\ OnDisk(ret.x_path) /\ OnDisk(ret.y_path)) =>
        LET other == GetItemOutcome(Unset, disk, npyShape, ret.idx, ret.branch,
                                    WithClass(OK(ret.slice_idx), ret.sampled_class))
        IN /\ ret.err = "none"
           /\ other.err = "none"
           /\ ret.x = other.x
           /\ ret.y = other.y

\* C5: the classification is that of the first entry of pos_slice_dict alone, in
\* every state: a mapping gives per-class mode with exactly its keys as class
\* labels, a sequence gives flat mode with no class labels, whatever the other
\* entries hold and however many retrievals were made.
C5_ClassifiedFromFirstEntry ==
    LET first == ds.pos_slice_dict[1][2]
    IN /\ first.kind = "dict" =>
            /\ ds.fg_idx_per_class
            /\ Range(ds.fg_classes) = DOMAIN first.map
            /\ Len(ds.fg_classes) = Cardinality(DOMAIN first.map)
       /\ first.kind = "list" =>
            /\ ~ds.fg_idx_per_class
            /\ ds.fg_classes = NoClasses

\* A retrieval on a structure whose first entry is flat and second per-class.
C5_Witness ==
    /\ Called
    /\ Len(ds.pos_slice_dict) = 2
    /\ ds.pos_slice_dict[1][2].kind = "list"
    /\ ds.pos_slice_dict[2][2].kind = "dict"
    /\ DOMAIN ds.pos_slice_dict[2][2].map # {}
    /\ ~ds.fg_idx_per_class

IsDigits(string) == \A i \in DOMAIN string : string[i] \in Range(Digit)

\* C6 (as claimed): the formatted index has exactly 3 characters, all decimal
\* digits, denotes the index, and names both files.
C6_ExactlyThreeDigits ==
    Resolved =>
        /\ Len(ret.slice_idx_str) = 3
        /\ IsDigits(ret.slice_idx_str)
        /\ DecimalValue(ret.slice_idx_str) = ret.slice_idx
        /\ ret.x_path = <<ret.case_id, "imaging_", ret.slice_idx_str>>
        /\ ret.y_path = <<ret.case_id, "segmentation_", ret.slice_idx_str>>

\* C6 (amended): the formatted index is zero-padded to at least 3 characters:
\* exactly 3 for an index below 1000, the unpadded digits from 1000 on; it is
\* all decimal digits, denotes the index, and names both files.
C6_ZeroPaddedToAtLeastThree ==
    Resolved =>
        /\ ret.slice_idx < 1000 => Len(ret.slice_idx_str) = 3
        /\ ret.slice_idx >= 1000 =>
              (Len(ret.slice_idx_str) > 3 /\ ret.slice_idx_str[1] # "0")
        /\ IsDigits(ret.slice_idx_str)
        /\ DecimalValue(ret.slice_idx_str) = ret.slice_idx
        /\ ret.x_path = <<ret.case_id, "imaging_", ret.slice_idx_str>>
        /\ ret.y_path = <<ret.case_id, "segmentation_", ret.slice_idx_str>>

\* Index 1000 is sampled and formatted as "1000", and its files are loaded.
C6_Witness ==
    /\ ret.slice_idx = 1000
    /\ ret.slice_idx_str = <<"1", "0", "0", "0">>
    /\ ret.err = "none"

\* C7: when the image file or the label file of the resolved index is not in
\* the case directory, the retrieval ends in FileNotFoundError, returns no
\* array, keeps the index it resolved and calls neither callable.
C7_MissingFileIsFatal ==
    (Resolved /\ (~OnDisk(ret.x_path) \/ ~OnDisk(ret.y_path))) =>
        /\ ret.err = "FileNotFoundError"
        /\ ret.x = NoArray
        /\ ret.y = NoArray
        /\ ret.transforms_calls = 0
        /\ ret.preprocessing_calls = 0
        /\ DecimalValue(ret.x_path[3]) = ret.slice_idx
        /\ DecimalValue(ret.y_path[3]) = ret.slice_idx

\* The label of a randomly drawn index is missing while its image exists, on a
\* dataset with both callables set.
C7_Witness ==
    /\ ret.err = "FileNotFoundError"
    /\ ret.branch = "rand"
    /\ OnDisk(ret.x_path)
    /\ ~OnDisk(ret.y_path)
    /\ Truthy(ds.transforms)
    /\ Truthy(ds.preprocessing)

\* C8: random sampling in a directory with no "imaging_" file ends in an error:
\* no index is produced, no file is named or loaded, no array is returned.
C8_EmptyDirectoryIsError ==
    (Called /\ ret.branch = "rand" /\ NumImages = 0) =>
        /\ ret.err = "ValueError"
        /\ ~Resolved
        /\ ret.x_path = NoPath
        /\ ret.y_path = NoPath
        /\ ret.x = NoArray
        /\ ret.y = NoArray

\* Random sampling was taken for a case whose directory holds no image.
C8_Witness ==
    /\ Called
    /\ ret.branch = "rand"
    /\ NumImages = 0
    /\ ret.err = "ValueError"

\* C9: no call changes the dataset object or the disk, and __len__ returns the
\* number of case identifiers the object was built with.
C9_NoSideEffect ==
    [][/\ ds' = ds
       /\ disk' = disk
       /\ lenRet' # lenRet => lenRet' = Len(ds.im_ids)]_vars

\* A failed retrieval and a __len__ call on a dataset of two cases.
C9_Witness ==
    /\ ret.err = "FileNotFoundError"
    /\ lenRet = 2
    /\ Len(ds.im_ids) = 2

\* C10: in per-class mode positive sampling draws the label from fg_classes, the
\* keys of the first entry; for a case with a per-class record the retrieval
\* ends in KeyError when the record lacks the label, in ValueError when its list
\* for the label is empty, and otherwise resolves an element of that list.
C10_LabelFromFirstEntry ==
    (Called /\ ret.branch = "pos" /\ ds.fg_idx_per_class) =>
        /\ ds.fg_classes = <<>> => (ret.err = "ValueError" /\ ret.sampled_class = NoIdx)
        /\ ds.fg_classes # <<>> =>
              /\ ret.sampled_class \in DOMAIN ds.pos_slice_dict[1][2].map
              /\ ~HasRecord => (ret.err = "KeyError" /\ ~Resolved)
              /\ (HasRecord /\ Record.kind = "dict") =>
                    IF ret.sampled_class \notin DOMAIN Record.map
                    THEN ret.err = "KeyError" /\ ~Resolved
                    ELSE IF Record.map[ret.sampled_class] = <<>>
                    THEN ret.err = "ValueError" /\ ~Resolved
                    ELSE ret.slice_idx \in Range(Record.map[ret.sampled_class])

\* The drawn label is missing from the record of the case, which records
\* positive indices under another label.
C10_Witness ==
    /\ Called
    /\ ret.branch = "pos"
    /\ ds.fg_idx_per_class
    /\ HasRecord
    /\ Record.kind = "dict"
    /\ ret.sampled_class \notin DOMAIN Record.map
    /\ \E label \in DOMAIN Record.map : Record.map[label] # <<>>
    /\ ret.err = "KeyError"

====
